---- MODULE Spec2Model ----
(***************************************************************************)
(* Model of the management command migration_updater                       *)
(* (src/migration_updater/management/commands/migration_updater.py).       *)
(*                                                                         *)
(* One behaviour is one run of Command.handle: Init is the state after all *)
(* migrations have been loaded (lines 30-71), then                         *)
(* the run builds the graph one dependency and one replacement hop at a    *)
(* time (lines 77-103), renders the GraphViz text (106-141), exports it    *)
(* (143-152), rewrites references (154-170) and removes squashed           *)
(* migrations (172-176).                                                   *)
(*                                                                         *)
(* app_names is the empty tuple in the source (line 30); it is an input    *)
(* here, the empty selection included.  The directory listing is taken in  *)
(* sorted order and every dependency is a tuple.                           *)
(*                                                                         *)
(* The options dict is an input of handle.  The variable options holds the *)
(* entries the run has used so far: include_squashed from Init on, since   *)
(* the build reads it; the three others, which lines 32-34 only copy into  *)
(* locals, are drawn by the step that first uses them.                     *)
(***************************************************************************)
EXTENDS Integers, Sequences, FiniteSets, TLC

VARIABLES
    app_names,               \* line 30: the selected apps
    options,                 \* line 29: the entries of options used so far
    migrations,              \* line 39: loaded migrations, in loading order
    migration_paths,         \* line 40: migration key -> path
    squashing_migrations,    \* line 41
    replaced_nodes,          \* line 37: replaced key -> squashing key
    edges,                   \* line 36: source key -> set of destination keys
    all_nodes,               \* line 38
    files,                   \* the disk: path -> content, for the files that exist
    stdout,                  \* notices written by self.stdout.write
    buffer,                  \* line 106: the lines of the GraphViz text
    out_file,                \* lines 145, 151: what the output file holds, None if absent
    dot_status,              \* outcome of the dot subprocess (lines 146-149)
    error,                   \* the exception that ended the run, "" if none
    pc,                      \* position of the run in handle
    i,                       \* index in migrations of the loop of line 77
    j,                       \* index in dependencies of the loop of line 81
    original_src,            \* line 84
    src,                     \* lines 81, 86
    hops                     \* iterations of the while loop of line 85 for this src

vars == <<app_names, options, migrations, migration_paths,
          squashing_migrations, replaced_nodes, edges, all_nodes, files,
          stdout, buffer, out_file, dot_status, error, pc, i, j,
          original_src, src, hops>>

inputs == <<app_names, options>>

loaded == <<migrations, migration_paths, squashing_migrations, replaced_nodes>>

----------------------------------------------------------------------------
(* Bounds of the model *)

(* The loaded migrations declare at most MaxDeps dependencies in all *)
MaxDeps == 1

(* The loaded migrations declare at most MaxReplaces replaced ids in all *)
MaxReplaces == 2

(* The migration keys of the model, in the order of Python's sorted() *)
IdOrder == << <<"a", "0001">>, <<"a", "0002">>, <<"b", "0001">> >>

Ids == {IdOrder[k] : k \in 1..Len(IdOrder)}

Groups == {id[1] : id \in Ids}

(* The while loop of line 85 is followed at most this far in the model;    *)
(* an acyclic replacement map has at most Cardinality(Ids) hops.           *)
MaxHops == Cardinality(Ids) + 1

None == <<>>

----------------------------------------------------------------------------
(* Helpers *)

Range(s) == {s[k] : k \in 1..Len(s)}

SeqsUpTo(S, n) == UNION {[1..k -> S] : k \in 0..n}

sorted(S) == SelectSeq(IdOrder, LAMBDA id : id \in S)

(* d[k] = v on a dict modelled as a function *)
DictSet(d, k, v) == [x \in DOMAIN d \cup {k} |-> IF x = k THEN v ELSE d[x]]

EmptyDict == [x \in {} |-> None]

(* line 31 *)
hide_squashed_nodes == ~options["include_squashed"]

(* line 32; false as long as line 154 has not read it *)
replace_squashed_nodes ==
    /\ "replace_squashed_dependencies" \in DOMAIN options
    /\ options["replace_squashed_dependencies"]

(* line 33; false as long as line 172 has not read it *)
remove_squashed_nodes ==
    /\ "remove_squashed_dependencies" \in DOMAIN options
    /\ options["remove_squashed_dependencies"]

(* line 74-75 *)
name(migration_tuple) ==
    "(\"" \o migration_tuple[1] \o "\", \"" \o migration_tuple[2] \o "\")"

(* line 109-110 *)
key(migration_tuple) == migration_tuple[1] \o "_" \o migration_tuple[2]

(* line 50, 64: the path of a migration file *)
migration_abspath(id) == id[1] \o "/migrations/" \o id[2] \o ".py"

(* The text of a migration file, as the id-pair references it holds: those *)
(* of its dependencies, then those of its replaces.                        *)
FileText(m) ==
    [k \in 1..Len(m.dependencies) |-> name(m.dependencies[k])]
        \o [k \in 1..Len(m.replaces) |-> name(m.replaces[k])]

----------------------------------------------------------------------------
(* Loading, lines 44-71 *)

RECURSIVE ReplacesInto(_, _, _, _)
(* lines 67-71: one migration's replaces, from entry k on *)
ReplacesInto(d, m, k, apps) ==
    IF k > Len(m.replaces) THEN d
    ELSE ReplacesInto(IF m.replaces[k][1] \in apps
                         THEN DictSet(d, m.replaces[k], m.id)
                         ELSE d,
                      m, k + 1, apps)

RECURSIVE ReplacedNodes(_, _, _, _)
(* lines 44-71: replaced_nodes after the migrations from index k on *)
ReplacedNodes(d, ms, k, apps) ==
    IF k > Len(ms) THEN d
    ELSE ReplacedNodes(ReplacesInto(d, ms[k], 1, apps), ms, k + 1, apps)

(* lines 65-66 *)
SquashingMigrations(ms) == {m.id : m \in {x \in Range(ms) : x.replaces # <<>>}}

RECURSIVE TotalLen(_, _, _)
(* the number of entries of the lists f gives the migrations ids[k..] *)
TotalLen(f, ids, k) ==
    IF k > Len(ids) THEN 0 ELSE Len(f[ids[k]]) + TotalLen(f, ids, k + 1)

(* The migrations an app selection can load: files of the selected apps,   *)
(* each with its dependencies and replaces lists, in listing order.        *)
LoadableMigrations(apps) ==
    UNION {
        {[k \in 1..Len(sorted(S)) |->
              [id |-> sorted(S)[k],
               dependencies |-> d[sorted(S)[k]],
               replaces |-> r[sorted(S)[k]]]] :
            d \in {f \in [S -> SeqsUpTo(Ids, MaxDeps)] :
                       TotalLen(f, sorted(S), 1) <= MaxDeps},
            r \in {f \in [S -> SeqsUpTo(Ids, MaxReplaces)] :
                       TotalLen(f, sorted(S), 1) <= MaxReplaces}} :
        S \in SUBSET {id \in Ids : id[1] \in apps}}

Init ==
    /\ app_names \in SUBSET Groups
    /\ \E include_squashed \in BOOLEAN :
           options = DictSet(EmptyDict, "include_squashed", include_squashed)
    /\ migrations \in LoadableMigrations(app_names)
    /\ migration_paths =
           [id \in {m.id : m \in Range(migrations)} |-> migration_abspath(id)]
    /\ squashing_migrations = SquashingMigrations(migrations)
    /\ replaced_nodes = ReplacedNodes(EmptyDict, migrations, 1, app_names)
    /\ files = [p \in {migration_abspath(m.id) : m \in Range(migrations)} |->
                   FileText((CHOOSE m \in Range(migrations) :
                                 migration_abspath(m.id) = p))]
    /\ edges = EmptyDict
    /\ all_nodes = {}
    /\ stdout = <<>>
    /\ buffer = <<>>
    /\ out_file = None
    /\ dot_status = "not run"
    /\ error = ""
    /\ pc = "build"
    /\ i = 1
    /\ j = 1
    /\ original_src = None
    /\ src = None
    /\ hops = 0

----------------------------------------------------------------------------
(* Building the graph, lines 77-103 *)

dst == migrations[i].id

(* line 85 with an if in place of the while: a single hop *)
FollowCondOnce(s) == s \in DOMAIN replaced_nodes /\ hide_squashed_nodes /\ hops = 0

(* line 85 without the test of hide_squashed_nodes *)
FollowCondAlways(s) == s \in DOMAIN replaced_nodes

(* line 85: the condition of the while loop *)
FollowCond(s) == s \in DOMAIN replaced_nodes /\ hide_squashed_nodes

(* lines 87-99 with the test of line 88 made on the dependency *)
ReplacedNoticeOnSrc(orig, s, d) ==
    IF orig \in DOMAIN replaced_nodes
    THEN [style |-> "ERROR",
          text |-> "migration " \o name(orig) \o " replaced by " \o name(s)
                   \o " in the dependencies of the squashed migration "
                   \o name(d)]
    ELSE [style |-> "SUCCESS",
          text |-> "migration " \o name(orig) \o " replaced by " \o name(s)
                   \o " in the dependencies of the migration " \o name(d)]

(* lines 87-99: the notice written when the dependency was redirected *)
ReplacedNotice(orig, s, d) ==
    IF d \in DOMAIN replaced_nodes
    THEN [style |-> "ERROR",
          text |-> "migration " \o name(orig) \o " replaced by " \o name(s)
                   \o " in the dependencies of the squashed migration "
                   \o name(d)]
    ELSE [style |-> "SUCCESS",
          text |-> "migration " \o name(orig) \o " replaced by " \o name(s)
                   \o " in the dependencies of the migration " \o name(d)]

(* line 101: edges[src].add(dst) on the defaultdict *)
EdgesAdd(e, s, d) ==
    DictSet(e, s, (IF s \in DOMAIN e THEN e[s] ELSE {}) \cup {d})

(* lines 81-84: take the next dependency of the migration *)
NextDependency ==
    /\ pc = "build"
    /\ i <= Len(migrations)
    /\ src = None
    /\ j <= Len(migrations[i].dependencies)
    /\ original_src' = migrations[i].dependencies[j]
    /\ src' = migrations[i].dependencies[j]
    /\ hops' = 0
    /\ UNCHANGED <<inputs, loaded, edges, all_nodes, files, stdout, buffer,
                   out_file, dot_status, error, pc, i, j>>

(* lines 85-86: one iteration of the while loop *)
FollowReplacement ==
    /\ pc = "build"
    /\ src # None
    /\ FollowCond(src)
    /\ hops < MaxHops
    /\ src' = replaced_nodes[src]
    /\ hops' = hops + 1
    /\ UNCHANGED <<inputs, loaded, edges, all_nodes, files, stdout, buffer,
                   out_file, dot_status, error, pc, i, j, original_src>>

(* lines 87-102: the loop has ended; notice, then edge *)
AddEdge ==
    /\ pc = "build"
    /\ src # None
    /\ ~FollowCond(src)
    /\ stdout' = IF src # original_src
                 THEN Append(stdout, ReplacedNotice(original_src, src, dst))
                 ELSE stdout
    /\ IF src[1] \in app_names
       THEN /\ edges' = EdgesAdd(edges, src, dst)
            /\ all_nodes' = all_nodes \cup {src}
       ELSE UNCHANGED <<edges, all_nodes>>
    /\ j' = j + 1
    /\ src' = None
    /\ original_src' = None
    /\ hops' = 0
    /\ UNCHANGED <<inputs, loaded, files, buffer, out_file,
                   dot_status, error, pc, i>>

(* line 103: all_nodes.add(dst), after the last dependency *)
EndMigration ==
    /\ pc = "build"
    /\ i <= Len(migrations)
    /\ src = None
    /\ j > Len(migrations[i].dependencies)
    /\ all_nodes' = all_nodes \cup {dst}
    /\ i' = i + 1
    /\ j' = 1
    /\ UNCHANGED <<inputs, loaded, edges, files, stdout, buffer, out_file,
                   dot_status,                   error, pc, original_src, src, hops>>

(* the loop of line 77 is exhausted *)
EndBuild ==
    /\ pc = "build"
    /\ i > Len(migrations)
    /\ pc' = "render"
    /\ UNCHANGED <<inputs, loaded, edges, all_nodes, files, stdout, buffer,
                   out_file, dot_status, error, i, j, original_src, src, hops>>

----------------------------------------------------------------------------
(* Writing the GraphViz text, lines 106-141 *)

(* lines 113, 135, 138: a node that is left out of the text *)
Hidden(id) == id \in DOMAIN replaced_nodes /\ hide_squashed_nodes

(* line 117 *)
CrossApp(s, dst_set) ==
    \E d \in dst_set : d \notin DOMAIN replaced_nodes /\ d[1] # s[1]

(* lines 116-118, 122-124 *)
color(s) ==
    IF s \in DOMAIN replaced_nodes THEN "#eeeeee"
    ELSE IF CrossApp(s, IF s \in DOMAIN edges THEN edges[s] ELSE {})
         THEN "#d9534f"
         ELSE "#79aec8"

(* lines 119-123 *)
label(s) ==
    s[1] \o ":" \o s[2]
        \o (IF s \in squashing_migrations THEN " (squash)" ELSE "")
        \o (IF s \in DOMAIN replaced_nodes THEN " (squashed)" ELSE "")

(* lines 125-128 *)
NodeLine(k, c, l) ==
    "    " \o k \o " [fillcolor=\"" \o c
        \o "\", style=\"filled\", label=\"" \o l \o "\"];\n"

(* lines 132, 140 *)
EdgeLine(s, d) == "    " \o key(s) \o " -> " \o key(d) \o ";\n"

(* lines 112-128 *)
NodeLines ==
    LET shown == SelectSeq(sorted(all_nodes), LAMBDA s : ~Hidden(s))
    IN  [k \in 1..Len(shown) |->
            NodeLine(key(shown[k]), color(shown[k]), label(shown[k]))]

RECURSIVE KeysInto(_, _, _)
(* the keys that the replaces list rs inserts in replaced_nodes, appended  *)
(* to seen: a dict keeps a key at the place of its first insertion         *)
KeysInto(seen, rs, k) ==
    IF k > Len(rs) THEN seen
    ELSE KeysInto(IF rs[k] \in DOMAIN replaced_nodes /\ rs[k] \notin Range(seen)
                     THEN Append(seen, rs[k])
                     ELSE seen,
                  rs, k + 1)

RECURSIVE ItemsOrder(_, _, _)
(* the keys of replaced_nodes in the order replaced_nodes.items() yields   *)
(* them, which is the order lines 67-71 inserted them                      *)
ItemsOrder(seen, ms, k) ==
    IF k > Len(ms) THEN seen
    ELSE ItemsOrder(KeysInto(seen, ms[k].replaces, 1), ms, k + 1)

(* lines 130-132 *)
ReplacedEdgeLines ==
    IF ~hide_squashed_nodes
    THEN LET items == ItemsOrder(<<>>, migrations, 1)
         IN  [k \in 1..Len(items) |->
                 EdgeLine(items[k], replaced_nodes[items[k]])]
    ELSE <<>>

(* lines 137-140 without the test of lines 138-139 *)
EdgeLinesOfAll(s) ==
    LET dsts == sorted(edges[s])
    IN  [k \in 1..Len(dsts) |-> EdgeLine(s, dsts[k])]

(* lines 137-140: the edges out of one source *)
EdgeLinesOf(s) ==
    LET dsts == SelectSeq(sorted(edges[s]), LAMBDA d : ~Hidden(d))
    IN  [k \in 1..Len(dsts) |-> EdgeLine(s, dsts[k])]

RECURSIVE EdgeLinesFrom(_, _)
(* lines 134-140, from the k-th source of the sorted items on *)
EdgeLinesFrom(srcs, k) ==
    IF k > Len(srcs) THEN <<>>
    ELSE (IF Hidden(srcs[k]) THEN <<>> ELSE EdgeLinesOf(srcs[k]))
             \o EdgeLinesFrom(srcs, k + 1)

(* lines 106-141 *)
Render ==
    /\ pc = "render"
    /\ buffer' = <<"digraph migrations {\n">>
                     \o NodeLines
                     \o ReplacedEdgeLines
                     \o EdgeLinesFrom(sorted(DOMAIN edges), 1)
                     \o <<"}\n">>
    /\ pc' = "export"
    /\ UNCHANGED <<inputs, loaded, edges, all_nodes, files, stdout, out_file,
                   dot_status, error, i, j, original_src, src, hops>>

----------------------------------------------------------------------------
(* Exporting, lines 143-152 *)

(* lines 150-152: any other extension, the text is written as it is *)
ExportText ==
    /\ pc = "export"
    /\ options' = DictSet(options, "graphviz", "text")
    /\ out_file' = buffer
    /\ pc' = "rewrite"
    /\ UNCHANGED <<app_names, loaded, edges, all_nodes, files, stdout, buffer,
                   dot_status, error, i, j, original_src, src, hops>>

(* line 143: without --graphviz the option is None (line 27), which has    *)
(* no rpartition                                                           *)
ExportNoFilename ==
    /\ pc = "export"
    /\ options' = DictSet(options, "graphviz", None)
    /\ error' = "AttributeError"
    /\ pc' = "failed"
    /\ UNCHANGED <<app_names, loaded, edges, all_nodes, files, stdout, buffer,
                   out_file, dot_status, i, j, original_src, src, hops>>

(* What the dot subprocess can do *)
DotOutcomes == {"missing", "exit 0", "exit nonzero"}

(* lines 145-149: png, svg or jpg.  The file is opened for writing, then   *)
(* Popen raises when there is no dot executable; otherwise communicate()   *)
(* waits for dot, and its return code is not read.                         *)
ExportImage ==
    /\ pc = "export"
    /\ options' = DictSet(options, "graphviz", "image")
    /\ \E outcome \in DotOutcomes :
        /\ dot_status' = outcome
        /\ out_file' = IF outcome = "exit 0" THEN <<"image">> ELSE <<>>
        /\ IF outcome = "missing"
           THEN /\ error' = "FileNotFoundError"
                /\ pc' = "failed"
           ELSE /\ error' = error
                /\ pc' = "rewrite"
    /\ UNCHANGED <<app_names, loaded, edges, all_nodes, files, stdout, buffer,
                   i, j, original_src, src, hops>>

----------------------------------------------------------------------------
(* Rewriting the references, lines 154-170 *)

(* lines 163-167: re.sub with the pattern of line 164 for src.  The        *)
(* pattern opens with an escaped parenthesis and ends with an unescaped    *)
(* one, so compiling it raises re.error (unbalanced parenthesis).          *)
re_sub(s, dst_name, migration_content) ==
    [raised |-> TRUE, text |-> migration_content]

RECURSIVE RewriteContent(_, _, _)
(* lines 159-167: the dependencies of one migration from entry k on *)
RewriteContent(migration_content, deps, k) ==
    IF k > Len(deps) THEN [raised |-> FALSE, text |-> migration_content]
    ELSE IF deps[k] \notin DOMAIN replaced_nodes
         THEN RewriteContent(migration_content, deps, k + 1)
         ELSE LET r == re_sub(deps[k], name(replaced_nodes[deps[k]]),
                              migration_content)
              IN  IF r.raised THEN r
                  ELSE RewriteContent(r.text, deps, k + 1)

RECURSIVE RewriteFrom(_, _, _)
(* lines 155-170, from migration k on: the disk, the notices and the       *)
(* exception the loop ends with                                            *)
RewriteFrom(fs, out, k) ==
    IF k > Len(migrations) THEN [files |-> fs, stdout |-> out, error |-> ""]
    ELSE LET migration_path == migration_paths[migrations[k].id]
             r == RewriteContent(fs[migration_path],
                                 migrations[k].dependencies, 1)
         IN  IF r.raised
             THEN [files |-> fs, stdout |-> out, error |-> "re.error"]
             ELSE RewriteFrom(
                      [fs EXCEPT ![migration_path] = r.text],
                      Append(out, [style |-> "SUCCESS",
                                   text |-> migration_path \o " updated"]),
                      k + 1)

(* lines 154-170 *)
RewriteReferences ==
    /\ pc = "rewrite"
    /\ \E replace \in BOOLEAN :
           options' = DictSet(options, "replace_squashed_dependencies", replace)
    /\ IF replace_squashed_nodes'
       THEN LET r == RewriteFrom(files, stdout, 1)
            IN  /\ files' = r.files
                /\ stdout' = r.stdout
                /\ error' = r.error
                /\ pc' = IF r.error = "" THEN "remove" ELSE "failed"
       ELSE /\ pc' = "remove"
            /\ UNCHANGED <<files, stdout, error>>
    /\ UNCHANGED <<app_names, loaded, edges, all_nodes, buffer, out_file,
                   dot_status, i, j, original_src, src, hops>>

----------------------------------------------------------------------------
(* Removing the squashed migrations, lines 172-176 *)

(* lines 173-176 with the squashing migrations in place of the squashed *)
RemovedSquashing ==
    SelectSeq([k \in 1..Len(migrations) |-> migrations[k].id],
              LAMBDA migration_key : migration_key \in squashing_migrations)

(* lines 173-176: the migrations whose file is removed, in loop order *)
Removed ==
    SelectSeq([k \in 1..Len(migrations) |-> migrations[k].id],
              LAMBDA migration_key : migration_key \in DOMAIN replaced_nodes)

(* lines 172-176 *)
RemoveSquashed ==
    /\ pc = "remove"
    /\ \E remove \in BOOLEAN :
           options' = DictSet(options, "remove_squashed_dependencies", remove)
    /\ IF remove_squashed_nodes'
       THEN /\ files' = [p \in DOMAIN files
                               \ {migration_paths[Removed[k]] :
                                      k \in 1..Len(Removed)} |-> files[p]]
            /\ stdout' = stdout \o
                   [k \in 1..Len(Removed) |->
                       [style |-> "SUCCESS",
                        text |-> migration_paths[Removed[k]] \o " deleted"]]
       ELSE UNCHANGED <<files, stdout>>
    /\ pc' = "done"
    /\ UNCHANGED <<app_names, loaded, edges, all_nodes, buffer, out_file,
                   dot_status, error, i, j, original_src, src, hops>>

----------------------------------------------------------------------------

Next ==
    \/ NextDependency
    \/ FollowReplacement
    \/ AddEdge
    \/ EndMigration
    \/ EndBuild
    \/ Render
    \/ ExportNoFilename
    \/ ExportText
    \/ ExportImage
    \/ RewriteReferences
    \/ RemoveSquashed

Spec == Init /\ [][Next]_vars

----------------------------------------------------------------------------
(* What the properties speak of *)

Keys == DOMAIN replaced_nodes

BuildEnded == pc # "build"

Rendered == pc \notin {"build", "render"}

Colors == {"#79aec8", "#d9534f", "#eeeeee"}

LabelsOf(id) ==
    {id[1] \o ":" \o id[2] \o a \o b :
        a \in {"", " (squash)"}, b \in {"", " (squashed)"}}

(* id has a node line in the text *)
NodeEmitted(id) ==
    \E c \in Colors, l \in LabelsOf(id) :
        NodeLine(key(id), c, l) \in Range(buffer)

(* id has a node line with the cross-app colour *)
MarkedCrossApp(id) ==
    \E l \in LabelsOf(id) : NodeLine(key(id), "#d9534f", l) \in Range(buffer)

(* the text has the edge line s -> d *)
EdgeEmitted(s, d) == EdgeLine(s, d) \in Range(buffer)

RECURSIVE Follow(_, _)
(* the id reached from x after at most fuel replacements *)
Follow(x, fuel) ==
    IF x \in Keys /\ fuel > 0 THEN Follow(replaced_nodes[x], fuel - 1) ELSE x

(* the end of the replacement chain of x, when the chain has an end *)
Resolved(x) == Follow(x, Cardinality(Keys))

Acyclic == \A x \in Keys : Resolved(x) \notin Keys

(* the migrations that declare a dependency which f sends to s *)
DependentsVia(f(_), s) ==
    {m.id : m \in {x \in Range(migrations) :
                       \E k \in 1..Len(x.dependencies) :
                           f(x.dependencies[k]) = s}}

Identity(x) == x

(* edges is exactly the declared dependencies, each sent through f, of the *)
(* sources whose app is selected                                           *)
EdgesAre(f(_)) ==
    \A s \in Ids :
        IF s[1] \in app_names /\ DependentsVia(f, s) # {}
        THEN s \in DOMAIN edges /\ edges[s] = DependentsVia(f, s)
        ELSE s \notin DOMAIN edges

----------------------------------------------------------------------------
(* C1: once the text is rendered, every id that is the source or the       *)
(* destination of an edge line, the replaced -> replacement lines          *)
(* included, also has a node line.                                         *)
NoDanglingEdge ==
    Rendered =>
        \A s \in Ids, d \in Ids :
            EdgeEmitted(s, d) => NodeEmitted(s) /\ NodeEmitted(d)

(* C2: following replaced_nodes from a dependency takes at most as many    *)
(* steps as there are replaced ids, whatever the replaces declarations.    *)
ChainFollowingBounded == hops <= Cardinality(Keys)

(* the dependency tokens of the stored text of migration m, decoded *)
StoredDependencies(m) ==
    [k \in 1..Len(m.dependencies) |->
        CHOOSE id \in Ids : name(id) = files[migration_paths[m.id]][k]]

RewriteEnded ==
    /\ replace_squashed_nodes
    /\ pc \in {"remove", "done"} \/ error = "re.error"

(* C3: once reference rewrite has run, no stored dependency of a loaded    *)
(* migration is a key of replaced_nodes, and a second rewrite of the       *)
(* stored texts changes none of them.                                      *)
RewriteIdempotent ==
    RewriteEnded =>
        \A m \in Range(migrations) :
            migration_paths[m.id] \in DOMAIN files =>
                /\ \A k \in 1..Len(m.dependencies) :
                       StoredDependencies(m)[k] \notin Keys
                /\ RewriteContent(files[migration_paths[m.id]],
                                  StoredDependencies(m), 1).text
                       = files[migration_paths[m.id]]

(* C4: with hide_squashed_nodes, no key of replaced_nodes has a node line  *)
(* or is the source or the destination of an edge line.                    *)
HiddenReplacedAbsent ==
    Rendered /\ hide_squashed_nodes =>
        \A id \in Keys :
            /\ ~NodeEmitted(id)
            /\ \A o \in Ids : ~EdgeEmitted(id, o) /\ ~EdgeEmitted(o, id)

(* C4 witness: rendered with hiding, a replaced migration is in all_nodes  *)
(* and is the destination of an edge                                       *)
HiddenReplacedAbsentWitness ==
    /\ Rendered
    /\ hide_squashed_nodes
    /\ \E s \in DOMAIN edges : s \notin Keys /\ edges[s] \cap Keys # {}

(* C5: with hide_squashed_nodes and an acyclic replaced_nodes, the source  *)
(* of the edge of each dependency is the end of its replacement chain, and *)
(* no source of edges is a key of replaced_nodes.                          *)
RedirectionTransitive ==
    BuildEnded /\ hide_squashed_nodes /\ Acyclic =>
        /\ EdgesAre(Resolved)
        /\ DOMAIN edges \cap Keys = {}

(* C5 witness: a dependency on A, A replaced by B, B replaced by C, and    *)
(* the edge from C is there                                                *)
RedirectionTransitiveWitness ==
    /\ BuildEnded
    /\ hide_squashed_nodes
    /\ Acyclic
    /\ \E m \in Range(migrations) :
           \E k \in 1..Len(m.dependencies) :
               LET a == m.dependencies[k]
               IN  /\ a \in Keys
                   /\ replaced_nodes[a] \in Keys
                   /\ replaced_nodes[replaced_nodes[a]] \notin Keys
                   /\ replaced_nodes[replaced_nodes[a]] \in DOMAIN edges
                   /\ m.id \in edges[replaced_nodes[replaced_nodes[a]]]

(* the paths of the loaded migrations that are keys of replaced_nodes *)
ReplacedPaths == {migration_paths[id] : id \in DOMAIN migration_paths \cap Keys}

AllPaths == {migration_paths[id] : id \in DOMAIN migration_paths}

(* C6: removal takes away the files of exactly the loaded migrations that  *)
(* are keys of replaced_nodes; without the option no file is removed; and  *)
(* no other file is ever removed.                                          *)
RemovalExact ==
    /\ pc = "done" /\ remove_squashed_nodes =>
           DOMAIN files = AllPaths \ ReplacedPaths
    /\ ~remove_squashed_nodes => DOMAIN files = AllPaths
    /\ AllPaths \ ReplacedPaths \subseteq DOMAIN files

(* C6 witness: removal has run over a replaced migration, a squashing one  *)
(* and one that is neither                                                 *)
RemovalExactWitness ==
    /\ pc = "done"
    /\ remove_squashed_nodes
    /\ ReplacedPaths # {}
    /\ \E id \in DOMAIN migration_paths : id \in squashing_migrations \ Keys

(* C7: a node that is shown and is not replaced has the cross-app colour   *)
(* exactly when one of its edges goes to another app's migration that is   *)
(* not hidden.                                                             *)
CrossAppMarking ==
    Rendered =>
        \A x \in Ids \ Keys :
            NodeEmitted(x) =>
                (MarkedCrossApp(x) <=>
                    /\ x \in DOMAIN edges
                    /\ \E y \in edges[x] : y[1] # x[1] /\ ~Hidden(y))

(* C8: once dot could not be started or has exited with a non-zero status, *)
(* the run is failed: it is not at reference rewrite, at removal or done.  *)
RendererFailureFailsRun ==
    dot_status \in {"missing", "exit nonzero"} => pc = "failed"

RECURSIVE ExpectedNotices(_, _)
(* the notices of the dependencies from entry k of migration n on, in      *)
(* migration then declaration order                                        *)
ExpectedNotices(n, k) ==
    IF n > Len(migrations) THEN <<>>
    ELSE IF k > Len(migrations[n].dependencies) THEN ExpectedNotices(n + 1, 1)
    ELSE LET d == migrations[n].id
             a == migrations[n].dependencies[k]
             r == IF hide_squashed_nodes THEN Resolved(a) ELSE a
         IN  (IF r # a
              THEN <<[style |-> IF d \in Keys THEN "ERROR" ELSE "SUCCESS",
                      text |-> "migration " \o name(a) \o " replaced by "
                               \o name(r) \o " in the dependencies of the "
                               \o (IF d \in Keys THEN "squashed " ELSE "")
                               \o "migration " \o name(d)]>>
              ELSE <<>>)
                 \o ExpectedNotices(n, k + 1)

NoRedirectionWhenShown ==
    ~hide_squashed_nodes =>
        /\ BuildEnded => EdgesAre(Identity)
        /\ pc \in {"build", "render", "export", "rewrite"} => stdout = <<>>
        /\ \A k \in 1..Len(stdout) :
               stdout[k].text \in {p \o " updated" : p \in AllPaths}
                                  \cup {p \o " deleted" : p \in AllPaths}

(* C10 witness: the graph is built without hiding and a replaced migration *)
(* is the source of an edge                                                *)
NoRedirectionWhenShownWitness ==
    /\ BuildEnded
    /\ ~hide_squashed_nodes
    /\ DOMAIN edges \cap Keys # {}

====
